---- MODULE Spec2Model ----
(***************************************************************************)
(* TagGUI main window (image-tagging-gui/main_window.py): the wiring       *)
(* between the image list, its selection, the tag editor of the selected   *)
(* image, the tag counter and the settings store.                          *)
(*                                                                         *)
(* The window is single threaded: every handler runs to completion before  *)
(* the next event is dispatched, so each handler, with every slot its      *)
(* signals reach, is one action.  The program state is kept as a record    *)
(* (State) so that slots compose as functions from state to state.         *)
(***************************************************************************)
EXTENDS Integers, Sequences, FiniteSets, TLC

\* ------------------------------------------------------------- bounds
\* Longest tag sequence an image gets in the model (the code has no cap).
MaxTags == 2

\* ------------------------------------------------------------ universe
Tags == {"a", "b"}
NoIndex == -1          \* QModelIndex().row() of an invalid index

\* The directories of the file system and what they hold at first launch:
\* one tag sequence per image file, in directory listing order.
InitialDisk ==
    [A |-> << <<"a">>, <<"a", "b">> >>,
     B |-> << <<"b">> >>,
     E |-> << >>]
Dirs == DOMAIN InitialDisk

\* QSettings keeps its values as text: str() on the way in, int() on the
\* way out (main_window.py:140, 153).
IntText == <<"-1", "0", "1", "2", "3", "4", "5", "6", "7", "8", "9">>
str(n) == IntText[n + 2]
int(s) == (CHOOSE i \in DOMAIN IntText : IntText[i] = s) - 2

\* Path('') is the current directory, which holds no images here.
Path(p) == IF p = "" THEN "." ELSE p

VARIABLES
    phase,        \* "off" | "running" | "crashed": the process
    settings,     \* Settings Store: present key -> text
    disk,         \* file system: directory -> tag sequences of its images
    images,       \* image_list_model.images (their tags)
    directory,    \* the directory image_list_model was loaded from
    tag_counter,  \* tag_counter_model: tag -> count
    tag_list,     \* image_tag_list_model.stringList()
    image_index,  \* image_tags_editor.image_index
    current,      \* image_list_selection_model.currentIndex().row()
    viewer,       \* row of the image the image viewer shows
    panel,        \* centralWidget().currentWidget(): "button" | "viewer"
    err,          \* an exception escaped a handler
    log,          \* history: the steps of the last handler, in order
    last,         \* history: the last operation, its argument, the row
                  \* that was current before it
    trip          \* history: a select-away-and-back round trip

vars == <<phase, settings, disk, images, directory, tag_counter, tag_list,
          image_index, current, viewer, panel, err, log, last, trip>>

State ==
    [settings |-> settings, disk |-> disk, images |-> images,
     directory |-> directory, tag_counter |-> tag_counter,
     tag_list |-> tag_list, image_index |-> image_index,
     current |-> current, viewer |-> viewer, panel |-> panel,
     err |-> err, log |-> log]

Becomes(s) ==
    /\ settings' = s.settings
    /\ disk' = s.disk
    /\ images' = s.images
    /\ directory' = s.directory
    /\ tag_counter' = s.tag_counter
    /\ tag_list' = s.tag_list
    /\ image_index' = s.image_index
    /\ current' = s.current
    /\ viewer' = s.viewer
    /\ panel' = s.panel
    /\ err' = s.err
    /\ log' = s.log

Step(ev, row) == [ev |-> ev, row |-> row]
Logged(s, ev, row) == [s EXCEPT !.log = Append(@, Step(ev, row))]

\* ------------------------------------------------------ Settings Store
contains(s, key) == key \in DOMAIN s.settings
value(s, key) == s.settings[key]
setValue(s, key, v) ==
    [s EXCEPT !.settings =
        [k \in DOMAIN s.settings \cup {key} |->
            IF k = key THEN v ELSE s.settings[k]]]

\* --------------------------------------------------- Tag Counter Model
\* Counter.update over every image's tags: a full recount.
RECURSIVE CountIn(_, _)
CountIn(tags, t) ==
    IF tags = << >> THEN 0
    ELSE (IF Head(tags) = t THEN 1 ELSE 0) + CountIn(Tail(tags), t)

RECURSIVE CountAll(_, _)
CountAll(imgs, t) ==
    IF imgs = << >> THEN 0
    ELSE CountIn(Head(imgs), t) + CountAll(Tail(imgs), t)

count_tags(s) ==
    [s EXCEPT !.tag_counter = [t \in Tags |-> CountAll(s.images, t)]]

\* A slot that was never connected.
skip_slot(s) == s

\* image_list_model.dataChanged -> tag_counter_model.count_tags(images)
image_list_model_dataChanged(s) == count_tags(s)

\* ---------------------------------------------------- Image List Model
ListDir(s, path) == IF path \in DOMAIN s.disk THEN s.disk[path] ELSE << >>

\* Rebuilds the list from the directory and notifies.
image_list_model_load_directory(s, path) ==
    image_list_model_dataChanged(
        [s EXCEPT !.images = ListDir(s, path), !.directory = path])

\* images[image_index].tags = tags, saved with the image, then notifies.
\* The index is a Python list index: -1 is the last entry, and an index
\* outside the list raises.
update_tags(s, idx, tags) ==
    LET n == Len(s.images)
        at == IF idx = NoIndex THEN n ELSE idx + 1
    IN  IF at \in 1..n
        THEN LET imgs == [s.images EXCEPT ![at] = tags]
             IN  image_list_model_dataChanged(
                    [s EXCEPT !.images = imgs,
                              !.disk = IF s.directory \in DOMAIN s.disk
                                       THEN [@ EXCEPT ![s.directory] = imgs]
                                       ELSE @])
        ELSE [s EXCEPT !.err = TRUE]

\* ------------------------------------------------- selection's slots
ValidRow(s, row) == row \in 0..(Len(s.images) - 1)

\* image_viewer.load_image(index)
load_image(s, row) == [s EXCEPT !.viewer = row]

\* image_tags_editor.load_image_tags(index): remembers the row and puts
\* that image's tags into the tag list model (none for an invalid index).
\* setStringList resets the model: none of dataChanged, rowsRemoved,
\* rowsMoved is emitted.
load_image_tags(s, row) ==
    [s EXCEPT !.image_index = row,
              !.tag_list = IF ValidRow(s, row) THEN s.images[row + 1]
                           ELSE << >>]

save_nothing(s, row) == s

\* lambda index: settings.setValue('image_index', index.row())
save_image_index(s, row) == setValue(s, "image_index", str(row))

currentChanged_no_editor(s, row) ==
    save_image_index(load_image(Logged(s, "currentChanged", row), row), row)

\* The three slots of image_list_selection_model.currentChanged, in the
\* order they were connected.
currentChanged(s, row) ==
    save_image_index(
        load_image_tags(
            load_image(Logged(s, "currentChanged", row), row), row), row)

\* QItemSelectionModel.clearCurrentIndex: notifies only if a row was
\* current.
clearCurrentIndex(s) ==
    LET c == Logged([s EXCEPT !.current = NoIndex], "clearCurrentIndex", NoIndex)
    IN  IF s.current # NoIndex THEN currentChanged(c, NoIndex) ELSE c

\* list_view.setCurrentIndex(image_list_model.index(row)): index() of a
\* row outside the list is invalid; nothing is emitted when the current
\* index does not change.
setCurrentIndex(s, row) ==
    LET r == IF ValidRow(s, row) THEN row ELSE NoIndex
    IN  IF r = s.current THEN s
        ELSE currentChanged([s EXCEPT !.current = r], r)

\* ------------------------------------------------ tag list's slots
update_image_list_model_tags(s) ==
    update_tags(Logged(s, "update_tags", s.image_index),
                s.image_index, s.tag_list)

image_tag_list_model_dataChanged(s) == update_image_list_model_tags(s)
image_tag_list_model_rowsRemoved(s) == update_image_list_model_tags(s)
image_tag_list_model_rowsMoved(s) == update_image_list_model_tags(s)

\* ----------------------------------------------- Image Tag List Model
RemoveAt(seq, i) == SubSeq(seq, 1, i - 1) \o SubSeq(seq, i + 1, Len(seq))
InsertAt(seq, i, x) == SubSeq(seq, 1, i - 1) \o <<x>> \o SubSeq(seq, i, Len(seq))

\* A tag typed into the input box: a row is inserted at the end and set.
add_tag(s, t) ==
    image_tag_list_model_dataChanged([s EXCEPT !.tag_list = Append(@, t)])
remove_tag(s, i) ==
    image_tag_list_model_rowsRemoved([s EXCEPT !.tag_list = RemoveAt(@, i)])
move_tag(s, i, j) ==
    image_tag_list_model_rowsMoved(
        [s EXCEPT !.tag_list = InsertAt(RemoveAt(@, i), j, @[i])])

\* ----------------------------------------------------------- MainWindow
load_directory_no_clear(s, path, select_index) ==
    LET s1 == Logged(setValue(s, "directory_path", path),
                     "setValue directory_path", NoIndex)
        s2 == Logged(image_list_model_load_directory(s1, path),
                     "load_directory", NoIndex)
        s4 == setCurrentIndex(s2, select_index)
    IN  Logged([s4 EXCEPT !.panel = "viewer"], "setCurrentWidget", NoIndex)

load_directory(s, path, select_index) ==
    LET s1 == Logged(setValue(s, "directory_path", path),
                     "setValue directory_path", NoIndex)
        s2 == Logged(image_list_model_load_directory(s1, path),
                     "load_directory", NoIndex)
        s3 == clearCurrentIndex(s2)
        s4 == setCurrentIndex(s3, select_index)
    IN  Logged([s4 EXCEPT !.panel = "viewer"], "setCurrentWidget", NoIndex)

select_and_load_directory_no_return(s, load_directory_path) ==
    load_directory(s, Path(load_directory_path), 0)

\* load_directory_path is what QFileDialog.getExistingDirectory returned:
\* "" when the dialog was cancelled.
select_and_load_directory(s, load_directory_path) ==
    IF load_directory_path = "" THEN s
    ELSE load_directory(s, Path(load_directory_path), 0)

\* int(settings.value('font_size')): value() of an absent key is None and
\* int(None) raises.
set_font_size(s) ==
    IF contains(s, "font_size") THEN s
    ELSE [Logged(s, "read absent font_size", NoIndex) EXCEPT !.err = TRUE]

restore_first_row(s) ==
    set_font_size(
        IF contains(s, "directory_path")
        THEN load_directory(s, Path(value(s, "directory_path")), 0)
        ELSE s)

restore(s) ==
    LET s1 == IF contains(s, "window_state") THEN s
              ELSE Logged(s, "read absent window_state", NoIndex)
        idx == IF contains(s1, "image_index")
               THEN int(value(s1, "image_index")) ELSE 0
        s2 == IF contains(s1, "directory_path")
              THEN load_directory(s1, Path(value(s1, "directory_path")), idx)
              ELSE s1
    IN  set_font_size(s2)

closeEvent(s) ==
    setValue(setValue(s, "geometry", "saved"), "window_state", "saved")

\* The window as __init__ leaves it before restore(): empty models, no
\* current row, the load-directory button showing.
Constructed(store, files) ==
    [settings |-> store, disk |-> files, images |-> << >>,
     directory |-> "", tag_counter |-> [t \in Tags |-> 0],
     tag_list |-> << >>, image_index |-> NoIndex, current |-> NoIndex,
     viewer |-> NoIndex, panel |-> "button", err |-> FALSE, log |-> << >>]

\* -------------------------------------------------------------- actions
Keys == {"geometry", "window_state", "image_index", "directory_path",
         "font_size"}

\* What a Settings Store may hold when the program starts: any subset of
\* the keys, each with a value an earlier run could have written.
StoredValues(k) ==
    CASE k = "image_index" -> {"0", "1"}
      [] k = "directory_path" -> Dirs
      [] k = "font_size" -> {"18"}
      [] OTHER -> {"saved"}
InitialStores ==
    UNION {{f \in [present -> UNION {StoredValues(k) : k \in present}] :
                \A k \in present : f[k] \in StoredValues(k)}
           : present \in SUBSET Keys}

Op(op, arg, prev, dir) == [op |-> op, arg |-> arg, prev |-> prev, dir |-> dir]
NoTrip ==
    [stage |-> 0, n |-> NoIndex, m |-> NoIndex, tagsN |-> << >>,
     tagsM |-> << >>, edited |-> FALSE]
Edited == [NoTrip EXCEPT !.n = current, !.edited = TRUE]

\* The handler starts with its history of steps empty.
Fresh == [State EXCEPT !.log = << >>]

Init ==
    /\ phase = "off"
    /\ settings \in InitialStores
    /\ disk = InitialDisk
    /\ images = << >>
    /\ directory = ""
    /\ tag_counter = [t \in Tags |-> 0]
    /\ tag_list = << >>
    /\ image_index = NoIndex
    /\ current = NoIndex
    /\ viewer = NoIndex
    /\ panel = "button"
    /\ err = FALSE
    /\ log = << >>
    /\ last = Op("none", NoIndex, NoIndex, "")
    /\ trip = NoTrip

\* The program is started: MainWindow.__init__, which ends in restore().
\* An exception in it ends the process.
Launch ==
    /\ phase = "off"
    /\ LET s == restore(Constructed(settings, disk))
       IN  /\ Becomes(s)
           /\ phase' = IF s.err THEN "crashed" ELSE "running"
    /\ last' = Op("launch",
                  IF "image_index" \in DOMAIN settings
                  THEN int(settings["image_index"]) ELSE 0,
                  last.prev, last.dir)
    /\ trip' = NoTrip

\* The window is closed; the process ends and only the Settings Store and
\* the files are left.
Close ==
    /\ phase = "running"
    /\ Becomes(Constructed(closeEvent(Fresh).settings, disk))
    /\ phase' = "off"
    /\ last' = Op("close", NoIndex, current, directory)
    /\ trip' = NoTrip

\* The user makes another row of the image list current.
SelectRow ==
    /\ phase = "running"
    /\ UNCHANGED phase
    /\ \E row \in 0..(Len(images) - 1) :
        /\ row # current
        /\ Becomes(setCurrentIndex(Fresh, row))
        /\ last' = Op("select", row, current, directory)
        /\ trip' =
            IF current = NoIndex THEN NoTrip
            ELSE IF trip.stage = 1 /\ trip.m = current /\ trip.n = row
            THEN [trip EXCEPT !.stage = 2]
            ELSE [stage |-> 1, n |-> current, m |-> row,
                  tagsN |-> tag_list, tagsM |-> images[row + 1],
                  edited |-> trip.stage = 0 /\ trip.edited
                             /\ trip.n = current]

\* "Load directory" from the menu or the button; the dialog returns a
\* directory, or "" when cancelled.
SelectAndLoadDirectory ==
    /\ phase = "running"
    /\ UNCHANGED phase
    /\ \E p \in Dirs \cup {""} :
        /\ Becomes(select_and_load_directory(Fresh, p))
        /\ last' = Op(IF p = "" THEN "cancel" ELSE "load", 0, current,
                      directory)
    /\ trip' = NoTrip

\* The editor edits the tags of the selected image.
AddTag ==
    /\ phase = "running"
    /\ UNCHANGED phase
    /\ current # NoIndex
    /\ Len(tag_list) < MaxTags
    /\ \E t \in Tags : Becomes(add_tag(Fresh, t))
    /\ last' = Op("add", NoIndex, current, directory)
    /\ trip' = Edited

RemoveTag ==
    /\ phase = "running"
    /\ UNCHANGED phase
    /\ current # NoIndex
    /\ \E i \in 1..Len(tag_list) : Becomes(remove_tag(Fresh, i))
    /\ last' = Op("remove", NoIndex, current, directory)
    /\ trip' = Edited

MoveTag ==
    /\ phase = "running"
    /\ UNCHANGED phase
    /\ current # NoIndex
    /\ \E i, j \in 1..Len(tag_list) :
        /\ i # j
        /\ Becomes(move_tag(Fresh, i, j))
    /\ last' = Op("move", NoIndex, current, directory)
    /\ trip' = Edited

Next ==
    \/ Launch
    \/ Close
    \/ SelectRow
    \/ SelectAndLoadDirectory
    \/ AddTag
    \/ RemoveTag
    \/ MoveTag

Spec == Init /\ [][Next]_vars

\* ------------------------------------------------------------- claims
InLog(ev) == \E i \in DOMAIN log : log[i].ev = ev
Rows == 0..(Len(images) - 1)
EditOps == {"add", "remove", "move"}

\* C1: in every state the count the Tag Counter Model holds for a tag is
\* the number of occurrences of that tag over all Image Entries of the
\* Image List Model.
C1_TagCountsAreUnion ==
    \A t \in Tags :
        tag_counter[t] =
            Cardinality(UNION {{<<i, j>> : j \in {k \in DOMAIN images[i] :
                                                    images[i][k] = t}}
                               : i \in DOMAIN images})
C1_Witness ==
    /\ last.op = "add"
    /\ directory = "A"
    /\ tag_counter["b"] = 2

\* C2: tags edited while N is selected are what the tag list holds again
\* after selecting M # N and then N, and M's tags are as before the trip.
C2_RoundTripKeepsEdits ==
    trip.stage = 2 =>
        /\ current = trip.n
        /\ tag_list = trip.tagsN
        /\ images[trip.m + 1] = trip.tagsM
C2_Witness ==
    /\ trip.stage = 2
    /\ trip.edited
    /\ trip.tagsN # InitialDisk[directory][trip.n + 1]

C4_SelectLoadsTags ==
    [][(current' # current /\ current' # NoIndex) =>
            /\ image_index' = current'
            /\ tag_list' = images'[current' + 1]]_vars
C4_Witness ==
    /\ last.op = "select"
    /\ last.prev # NoIndex
    /\ image_index = last.arg
    /\ tag_list # images[last.prev + 1]

\* C5 as stated: a load from the menu on a non-empty directory ends with
\* row 0 current, and the load restore() issues in a start that succeeds
\* ends with the stored row current (row 0 when 'image_index' is absent).
C5_AsStated ==
    /\ (last.op = "load" /\ images # << >>) => current = 0
    /\ (last.op = "launch" /\ phase = "running" /\ InLog("load_directory"))
            => current = last.arg

\* C5 amended: the load restore() issues ends with the stored row current
\* if the loaded directory has that row, and with no row current if not.
C5_RestoredRowIfPresent ==
    /\ (last.op = "load" /\ images # << >>) => current = 0
    /\ (last.op = "launch" /\ InLog("load_directory")) =>
            current = IF last.arg \in Rows THEN last.arg ELSE NoIndex
C5_Witness ==
    /\ last.op = "launch"
    /\ InLog("load_directory")
    /\ "image_index" \in DOMAIN settings
    /\ current = 1

\* C6: while a row k is current in directory D the store holds D and k,
\* and the next run started over that store ends restore() with D loaded
\* and row k current.
C6_SessionRestored ==
    /\ current # NoIndex =>
            /\ {"directory_path", "image_index"} \subseteq DOMAIN settings
            /\ settings["directory_path"] = directory
            /\ int(settings["image_index"]) = current
    /\ (last.op = "launch" /\ last.prev # NoIndex) =>
            /\ directory = last.dir
            /\ images = disk[last.dir]
            /\ current = last.prev
C6_Witness ==
    /\ last.op = "launch"
    /\ last.prev = 1
    /\ current = 1

\* C7 as stated: constructing the window over a store with keys absent
\* reads no absent key and raises nothing.
C7_AsStated ==
    last.op = "launch" =>
        /\ ~err
        /\ ~InLog("read absent window_state")
        /\ ~InLog("read absent font_size")

\* C8: a cancelled directory dialog changes nothing of the store, the
\* models, the selection or the visible panel.
C8_CancelIsNoOp ==
    [][last'.op = "cancel" =>
            UNCHANGED <<settings, disk, images, directory, tag_counter,
                        tag_list, image_index, current, viewer, panel,
                        err>>]_vars
C8_Witness ==
    /\ last.op = "cancel"
    /\ current # NoIndex
    /\ panel = "viewer"

C10_LoadClearsThenSelects ==
    (last.op \in {"load", "launch"} /\ InLog("load_directory")
        /\ last.arg \in Rows) =>
        /\ \E i1, i2, i3, i4 \in DOMAIN log :
            /\ i1 < i2 /\ i2 < i3 /\ i3 < i4
            /\ log[i1].ev = "setValue directory_path"
            /\ log[i2].ev = "load_directory"
            /\ log[i3].ev = "clearCurrentIndex"
            /\ log[i4] = Step("currentChanged", last.arg)
            /\ \A i \in DOMAIN log :
                log[i] = Step("currentChanged", last.arg) => i = i4
            /\ \E i5 \in DOMAIN log :
                i4 < i5 /\ log[i5].ev = "setCurrentWidget"
        /\ settings["directory_path"] = directory
        /\ current = last.arg
        /\ viewer = last.arg
        /\ image_index = last.arg
        /\ tag_list = images[last.arg + 1]
        /\ int(settings["image_index"]) = last.arg
        /\ panel = "viewer"
C10_Witness ==
    /\ last.op = "load"
    /\ last.dir = directory
    /\ last.prev = 0
    /\ current = 0

====
